---- MODULE Spec2Model ----
(***************************************************************************)
(* Model of gpu_temp_monitor (src/main.py): get_gpu_data_structured, the   *)
(* poll that builds one snapshot dictionary from pynvml and, as fallback,  *)
(* from psutil.sensors_temperatures().                                     *)
(*                                                                         *)
(* Conventions                                                             *)
(*  - A Python str is a sequence of one-character strings, so that         *)
(*    lower(), strip() and the "in" substring test are computed.           *)
(*  - An optional value is <<>> (None) or <<v>>.                           *)
(*  - A float temperature is an integer number of tenths of a degree.      *)
(*  - The dictionary `data` is a function whose DOMAIN is its key set, so  *)
(*    `"error" in data` is `"error" \in DOMAIN data`.                      *)
(*  - An error text is the sequence of the fragments it is built from.     *)
(*  - pc is the source line the poll is about to execute.                  *)
(***************************************************************************)
EXTENDS Integers, Sequences, FiniteSets, TLC

VARIABLES PYNVML_AVAILABLE, pc, data, exc, device_count, i, raw_temps, calls,
          args, mpc, stdout, stderr, exit_code, polls

vars == <<PYNVML_AVAILABLE, pc, data, exc, device_count, i, raw_temps, calls,
          args, mpc, stdout, stderr, exit_code, polls>>

\* the state of main(): the parsed arguments, the line main is at (or will
\* resume at when the poll returns), what was written to the two streams
\* (stdout: since the last clear_console), the exit status (None while the
\* process runs) and the number of polls started (MaxPolls: that or more)
mainvars == <<args, mpc, stdout, stderr, exit_code, polls>>

(***************************************************************************)
(* Bounds of the explored inputs.                                          *)
(***************************************************************************)
MaxDevices == 2
MaxGroups == 2
MaxPolls == 2

(***************************************************************************)
(* Python values.                                                          *)
(***************************************************************************)
None == <<>>
Some(v) == <<v>>

\* float(n) of an int number of degrees, in tenths of a degree
Float(n) == n * 10

UpperChars == <<"A","B","C","D","E","F","G","H","I","J","K","L","M",
                "N","O","P","Q","R","S","T","U","V","W","X","Y","Z">>
LowerChars == <<"a","b","c","d","e","f","g","h","i","j","k","l","m",
                "n","o","p","q","r","s","t","u","v","w","x","y","z">>

LowerChar(c) ==
    IF \E k \in 1..Len(UpperChars) : UpperChars[k] = c
    THEN LowerChars[CHOOSE k \in 1..Len(UpperChars) : UpperChars[k] = c]
    ELSE c

\* str.lower()
Lower(s) == [k \in 1..Len(s) |-> LowerChar(s[k])]

\* `sub in s` for two str
Contains(s, sub) ==
    \E k \in 0..(Len(s) - Len(sub)) :
        \A j \in 1..Len(sub) : s[k + j] = sub[j]

\* str.startswith
StartsWith(s, prefix) ==
    /\ Len(prefix) <= Len(s)
    /\ \A j \in 1..Len(prefix) : s[j] = prefix[j]

IsSpace(c) == c \in {" ", "\t", "\n"}

\* str.strip()
Strip(s) ==
    IF \A k \in 1..Len(s) : IsSpace(s[k])
    THEN <<>>
    ELSE LET first == CHOOSE k \in 1..Len(s) :
                          /\ ~IsSpace(s[k])
                          /\ \A j \in 1..(k - 1) : IsSpace(s[j])
             last  == CHOOSE k \in 1..Len(s) :
                          /\ ~IsSpace(s[k])
                          /\ \A j \in (k + 1)..Len(s) : IsSpace(s[j])
         IN  SubSeq(s, first, last)

Digits == <<"0","1","2","3","4","5","6","7","8","9">>

RECURSIVE IntToStr(_)
\* str(n) of a non-negative int, as in the f-string "GPU {n}"
IntToStr(n) ==
    IF n < 10 THEN <<Digits[n + 1]>>
    ELSE IntToStr(n \div 10) \o <<Digits[(n % 10) + 1]>>

(***************************************************************************)
(* Text literals of the source.                                            *)
(***************************************************************************)
S_gpu   == <<"g","p","u">>
S_video == <<"v","i","d","e","o">>
S_temp  == <<"t","e","m","p">>
S_GPU_  == <<"G","P","U"," ">>

K_amdgpu   == <<"a","m","d","g","p","u">>
K_nouveau  == <<"n","o","u","v","e","a","u">>
K_radeon   == <<"r","a","d","e","o","n">>
K_coretemp == <<"c","o","r","e","t","e","m","p">>
K_Video    == <<"V","i","d","e","o">>

psutil_gpu_sensor_keys == {K_amdgpu, K_nouveau, S_gpu, K_radeon}

DEFAULT_HIGH == 850
DEFAULT_CRITICAL == 950

NVML_ERROR_NOT_FOUND == 6

\* fragments of the error texts
F_pynvml_error    == "pynvml error: "
F_falling_back    == ". Falling back to psutil."
F_not_found_note  == " (NVIDIA driver not loaded or no NVIDIA GPUs found)"
F_unexpected      == "Unexpected pynvml issue: "
F_no_data         == " No GPU temperature data found via psutil either."
F_general         == "General error during GPU data collection: "

\* `"Falling back to psutil" in text`: of the literal fragments only
\* F_falling_back holds the phrase; no modelled exception message does
HasFallingBack(text) == \E k \in 1..Len(text) : text[k] = F_falling_back

(***************************************************************************)
(* What the two libraries can answer (the inputs of a poll).               *)
(***************************************************************************)
\* exceptions of class NVMLError (error.value) and of other classes
NvmlErrors ==
    { [type |-> "NVMLError", value |-> NVML_ERROR_NOT_FOUND, msg |-> "Not Found"],
      [type |-> "NVMLError", value |-> 9, msg |-> "Driver Not Loaded"] }
OtherErrors == { [type |-> "Exception", value |-> 0, msg |-> "unexpected"] }
LibraryErrors == NvmlErrors \cup OtherErrors

SensorReadErrors == { [type |-> "Exception", value |-> 0, msg |-> "sensors unreadable"] }
DecodeError == [type |-> "Exception", value |-> 0, msg |-> "invalid start byte"]

NoExc == [type |-> "none", value |-> 0, msg |-> ""]

\* the ASCII codes of the device names used below
AsciiCodes == <<32, 50, 52, 71, 80, 84, 85>>
AsciiChars == <<" ", "2", "4", "G", "P", "T", "U">>

ValidUtf8(bytes) == \A k \in 1..Len(bytes) : bytes[k] < 128

\* bytes.decode('utf-8') of valid ASCII bytes
Decode(bytes) ==
    [k \in 1..Len(bytes) |->
        AsciiChars[CHOOSE j \in 1..Len(AsciiCodes) : AsciiCodes[j] = bytes[k]]]

\* nvmlDeviceGetName answers bytes (older pynvml) or str
DeviceNames ==
    { [isbytes |-> TRUE,  val |-> <<84, 52>>],
      [isbytes |-> TRUE,  val |-> <<255>>],
      [isbytes |-> FALSE, val |-> <<"G","P","U"," ","2">>] }

\* nvmlDeviceGetTemperature answers an int number of degrees
DeviceTemps == {63}

\* the entries (psutil shwtemp) the sensor table is built from
L_GPU_core == <<"G","P","U"," ","c","o","r","e">>
L_Package  == <<"P","a","c","k","a","g","e"," ","i","d"," ","0">>
L_edge     == <<" ","e","d","g","e"," ">>

E_gpu_core == [label |-> L_GPU_core, current |-> Some(550), high |-> Some(725), critical |-> None]
E_package  == [label |-> L_Package, current |-> Some(500), high |-> Some(800), critical |-> Some(1000)]
E_no_value == [label |-> L_edge, current |-> None, high |-> None, critical |-> None]
E_no_label == [label |-> <<>>, current |-> Some(400), high |-> None, critical |-> None]

SensorEntries == {E_gpu_core, E_package, E_no_value, E_no_label}

SensorKeys == {K_amdgpu, K_coretemp, K_Video}

\* the lists of entries a group can hold (psutil gives no empty group)
SensorLists == { <<E_gpu_core>>, <<E_package>>, <<E_no_value, E_no_label>> }

\* keys and entries that exercise every branch of lines 125-131
K_Radeon  == <<"R","a","d","e","o","n">>
K_temp1   == <<"t","e","m","p","1">>
K_acpitz  == <<"a","c","p","i","t","z">>
L_gpu     == <<"g","p","u">>
ClassifyKeys ==
    {K_amdgpu, K_nouveau, S_gpu, K_radeon, K_Radeon, K_coretemp, K_Video,
     K_temp1, K_acpitz}
ClassifyLabels == {L_GPU_core, L_Package, L_edge, L_gpu, <<>>}
ClassifyEntries ==
    { [label |-> l, current |-> c, high |-> None, critical |-> None] :
        l \in ClassifyLabels, c \in {None, Some(550)} }
\* the tables with one group of one entry
ClassifyTables ==
    { << <<k, <<e>> >> >> : k \in ClassifyKeys, e \in ClassifyEntries }

\* a sensor table (dict in insertion order): a sequence of <<key, list>>
\* with distinct keys
SensorKeyOrder == <<K_amdgpu, K_coretemp, K_Video>>
KeyRank(k) == CHOOSE r \in 1..Len(SensorKeyOrder) : SensorKeyOrder[r] = k
\* the groups are listed in the order of SensorKeyOrder
SensorTables ==
    UNION { { t \in [1..n -> SensorKeys \X SensorLists] :
                \A a, b \in 1..n : a < b => KeyRank(t[a][1]) < KeyRank(t[b][1]) }
            : n \in 0..MaxGroups }

(***************************************************************************)
(* The dictionary `data`.                                                  *)
(***************************************************************************)
\* data[k] = v
Put(d, k, v) == [x \in (DOMAIN d) \cup {k} |-> IF x = k THEN v ELSE d[x]]

\* data.get("error", "")
GetError(d) == IF "error" \in DOMAIN d THEN d["error"] ELSE <<>>

NewData ==
    [timestamp |-> "now", gpu_temps |-> <<>>, gpu_detection_method |-> "None"]

Call(fn, ok) == [fn |-> fn, ok |-> ok]

(***************************************************************************)
(* Control flow of get_gpu_data_structured.                                *)
(***************************************************************************)
\* line 76: the vendor path is entered only with the capability
VendorBranch_Always(available) == "L78"
VendorBranch(available) == IF available THEN "L78" ELSE "L114"

\* lines 104 and 109: the except clause that takes an exception raised
\* between nvmlInit and nvmlShutdown
InnerHandler(e) == IF e.type = "NVMLError" THEN "L104" ELSE "L109"

\* line 153: the except clause of the outer try
OuterHandler_Reraise(e) == "raised"
OuterHandler(e) == IF e.type \in {"NVMLError", "Exception"} THEN "L153" ELSE "raised"

TypeOK ==
    /\ PYNVML_AVAILABLE \in BOOLEAN
    /\ pc \in {"idle", "L76", "L78", "L79", "L82", "L103", "L104", "L109",
               "L114", "L115", "L117", "L153", "L161", "done", "raised"}
    /\ device_count \in 0..(MaxDevices + 1)
    /\ i \in 0..(MaxDevices + 1)
    /\ args \in [json : BOOLEAN, short : BOOLEAN]
    /\ mpc \in {"L223", "L228", "L230", "L236", "L266", "L268", "L269", "L273", "exited"}
    /\ exit_code \in {None, Some(0), Some(1)}
    /\ polls \in 0..(MaxPolls + 1)

Init ==
    /\ PYNVML_AVAILABLE \in BOOLEAN
    /\ pc = "idle"
    /\ data = NewData
    /\ exc = NoExc
    /\ device_count = 0
    /\ i = 0
    /\ raw_temps = <<>>
    /\ calls = <<>>
    /\ args \in [json : BOOLEAN, short : BOOLEAN]
    /\ mpc = "L223"
    /\ stdout = <<>>
    /\ stderr = <<>>
    /\ exit_code = None
    /\ polls = 0

\* lines 228 and 268: the line main() resumes at when the poll returns
ReturnAddress(line) == IF line = "L228" THEN "L230" ELSE "L269"

\* lines 228, 268 and 63-74: main() calls get_gpu_data_structured, which
\* starts with a fresh dict
StartPoll ==
    /\ mpc \in {"L228", "L268"}
    /\ pc \in {"idle", "done"}
    /\ mpc' = ReturnAddress(mpc)
    /\ polls' = IF polls < MaxPolls THEN polls + 1 ELSE polls
    /\ UNCHANGED <<args, stdout, stderr, exit_code>>
    /\ pc' = "L76"
    /\ data' = NewData
    /\ exc' = NoExc
    /\ device_count' = 0
    /\ i' = 0
    /\ raw_temps' = <<>>
    /\ calls' = <<>>
    /\ UNCHANGED PYNVML_AVAILABLE

\* line 76
CheckVendor ==
    /\ pc = "L76"
    /\ pc' = VendorBranch(PYNVML_AVAILABLE)
    /\ UNCHANGED <<PYNVML_AVAILABLE, data, exc, device_count, i, raw_temps, calls>>
    /\ UNCHANGED mainvars

\* line 78
NvmlInit ==
    /\ pc = "L78"
    /\ \/ /\ calls' = Append(calls, Call("nvmlInit", TRUE))
          /\ pc' = "L79"
          /\ UNCHANGED exc
       \/ \E e \in LibraryErrors :
            /\ calls' = Append(calls, Call("nvmlInit", FALSE))
            /\ exc' = e
            /\ pc' = InnerHandler(e)
    /\ UNCHANGED <<PYNVML_AVAILABLE, data, device_count, i, raw_temps>>
    /\ UNCHANGED mainvars

\* lines 79-81
NvmlDeviceGetCount ==
    /\ pc = "L79"
    /\ \/ \E n \in 0..MaxDevices :
            /\ calls' = Append(calls, Call("nvmlDeviceGetCount", TRUE))
            /\ device_count' = n
            /\ i' = 0
            /\ IF n > 0
               THEN /\ data' = Put(data, "gpu_detection_method", "pynvml")
                    /\ pc' = "L82"
               ELSE /\ data' = data
                    /\ pc' = "L103"
            /\ UNCHANGED exc
       \/ \E e \in LibraryErrors :
            /\ calls' = Append(calls, Call("nvmlDeviceGetCount", FALSE))
            /\ exc' = e
            /\ pc' = InnerHandler(e)
            /\ UNCHANGED <<data, device_count, i>>
    /\ UNCHANGED <<PYNVML_AVAILABLE, raw_temps>>
    /\ UNCHANGED mainvars

\* lines 93-102: the reading appended for one device
VendorReading(gpu_name, temp_c) ==
    [label |-> gpu_name, current |-> Float(temp_c), high |-> DEFAULT_HIGH,
     critical |-> DEFAULT_CRITICAL, detection_source |-> <<"pynvml">>]

\* lines 82-102: one iteration of the loop over the devices
ReadDevice ==
    /\ pc = "L82"
    /\ i < device_count
    /\ \/ \E e \in LibraryErrors :
            /\ calls' = Append(calls, Call("nvmlDeviceGetHandleByIndex", FALSE))
            /\ exc' = e
            /\ pc' = InnerHandler(e)
            /\ UNCHANGED <<data, i>>
       \/ \E e \in LibraryErrors :
            /\ calls' = calls \o <<Call("nvmlDeviceGetHandleByIndex", TRUE),
                                   Call("nvmlDeviceGetName", FALSE)>>
            /\ exc' = e
            /\ pc' = InnerHandler(e)
            /\ UNCHANGED <<data, i>>
       \/ \E name \in DeviceNames :
            /\ name.isbytes
            /\ ~ValidUtf8(name.val)
            /\ calls' = calls \o <<Call("nvmlDeviceGetHandleByIndex", TRUE),
                                   Call("nvmlDeviceGetName", TRUE),
                                   Call("decode", FALSE)>>
            /\ exc' = DecodeError
            /\ pc' = InnerHandler(DecodeError)
            /\ UNCHANGED <<data, i>>
       \/ \E name \in DeviceNames, e \in LibraryErrors :
            /\ name.isbytes => ValidUtf8(name.val)
            /\ calls' = calls \o <<Call("nvmlDeviceGetHandleByIndex", TRUE),
                                   Call("nvmlDeviceGetName", TRUE),
                                   Call("nvmlDeviceGetTemperature", FALSE)>>
            /\ exc' = e
            /\ pc' = InnerHandler(e)
            /\ UNCHANGED <<data, i>>
       \/ \E name \in DeviceNames, temp_c \in DeviceTemps :
            /\ name.isbytes => ValidUtf8(name.val)
            /\ LET gpu_name == IF name.isbytes THEN Decode(name.val) ELSE name.val
               IN  data' = Put(data, "gpu_temps",
                               Append(data["gpu_temps"], VendorReading(gpu_name, temp_c)))
            /\ calls' = calls \o <<Call("nvmlDeviceGetHandleByIndex", TRUE),
                                   Call("nvmlDeviceGetName", TRUE),
                                   Call("nvmlDeviceGetTemperature", TRUE)>>
            /\ i' = i + 1
            /\ pc' = IF i + 1 < device_count THEN "L82" ELSE "L103"
            /\ UNCHANGED exc
    /\ UNCHANGED <<PYNVML_AVAILABLE, device_count, raw_temps>>
    /\ UNCHANGED mainvars

\* line 103
NvmlShutdown ==
    /\ pc = "L103"
    /\ \/ /\ calls' = Append(calls, Call("nvmlShutdown", TRUE))
          /\ pc' = "L114"
          /\ UNCHANGED exc
       \/ \E e \in LibraryErrors :
            /\ calls' = Append(calls, Call("nvmlShutdown", FALSE))
            /\ exc' = e
            /\ pc' = InnerHandler(e)
    /\ UNCHANGED <<PYNVML_AVAILABLE, data, device_count, i, raw_temps>>
    /\ UNCHANGED mainvars

\* lines 105-108: the dict after `except NVMLError as error`
NvmlErrorData(d, error) ==
    LET text == <<F_pynvml_error, error.msg, F_falling_back>>
        d1   == Put(Put(d, "error", text),
                    "gpu_detection_method", "pynvml_failed_fallback_psutil")
    IN  IF error.value = NVML_ERROR_NOT_FOUND
        THEN Put(d1, "error", Append(d1["error"], F_not_found_note))
        ELSE d1

\* lines 104-108
NvmlErrorHandler ==
    /\ pc = "L104"
    /\ data' = NvmlErrorData(data, exc)
    /\ exc' = NoExc
    /\ pc' = "L114"
    /\ UNCHANGED <<PYNVML_AVAILABLE, device_count, i, raw_temps, calls>>
    /\ UNCHANGED mainvars

\* lines 110-111: the dict after `except Exception as e` of the vendor path
UnexpectedErrorData_NoText(d, e) ==
    Put(d, "gpu_detection_method", "pynvml_exception_fallback_psutil")
UnexpectedErrorData(d, e) ==
    Put(Put(d, "error", <<F_unexpected, e.msg, F_falling_back>>),
        "gpu_detection_method", "pynvml_exception_fallback_psutil")

\* lines 109-111
UnexpectedHandler ==
    /\ pc = "L109"
    /\ data' = UnexpectedErrorData(data, exc)
    /\ exc' = NoExc
    /\ pc' = "L114"
    /\ UNCHANGED <<PYNVML_AVAILABLE, device_count, i, raw_temps, calls>>
    /\ UNCHANGED mainvars

(***************************************************************************)
(* The psutil fallback, lines 114-151.                                     *)
(***************************************************************************)
\* line 114: whether psutil is consulted
FallbackCondition_And(d) ==
    /\ d["gpu_temps"] = <<>>
    /\ d["gpu_detection_method"] \in
         {"pynvml_failed_fallback_psutil", "pynvml_exception_fallback_psutil"}
FallbackCondition_Always(d) == TRUE
FallbackCondition_EmptyOnly(d) == d["gpu_temps"] = <<>>
FallbackCondition(d) ==
    \/ d["gpu_temps"] = <<>>
    \/ d["gpu_detection_method"] \in
         {"pynvml_failed_fallback_psutil", "pynvml_exception_fallback_psutil"}

\* lines 124-131: is_gpu_sensor for one entry of the group `key`
IsGpuSensor_CaseSensitive(key, sensor) ==
    IF sensor.current # None
    THEN \/ key \in psutil_gpu_sensor_keys
         \/ Contains(key, S_gpu) \/ Contains(key, S_video)
         \/ Contains(key, S_temp) /\ Contains(sensor.label, S_gpu)
    ELSE FALSE
IsGpuSensor(key, sensor) ==
    IF sensor.current # None
    THEN \/ key \in psutil_gpu_sensor_keys
         \/ Contains(Lower(key), S_gpu) \/ Contains(Lower(key), S_video)
         \/ Contains(Lower(key), S_temp) /\ Contains(Lower(sensor.label), S_gpu)
    ELSE FALSE

\* lines 134-141: the reading appended for a qualifying entry
GenericReading(key, sensor, psutil_gpu_counter) ==
    [label |-> IF sensor.label # <<>> THEN Strip(sensor.label)
               ELSE S_GPU_ \o IntToStr(psutil_gpu_counter),
     current |-> sensor.current[1],
     high |-> IF sensor.high # None THEN sensor.high[1] ELSE DEFAULT_HIGH,
     critical |-> IF sensor.critical # None THEN sensor.critical[1] ELSE DEFAULT_CRITICAL,
     detection_source |-> <<"psutil", key>>]

RECURSIVE Flatten(_)
\* the order in which lines 122-123 visit the entries: <<key, sensor>> pairs
Flatten(table) ==
    IF table = <<>> THEN <<>>
    ELSE [k \in 1..Len(table[1][2]) |-> <<table[1][1], table[1][2][k]>>]
         \o Flatten(Tail(table))

RECURSIVE ScanSensors(_, _, _)
\* lines 119-143: the loop over the entries; the result is gpu_temps followed
\* by psutil_gpu_counter
ScanSensors(pairs, gpu_temps, psutil_gpu_counter) ==
    IF pairs = <<>> THEN <<gpu_temps, psutil_gpu_counter>>
    ELSE LET key == pairs[1][1]
             sensor == pairs[1][2]
         IN  IF IsGpuSensor(key, sensor)
             THEN ScanSensors(Tail(pairs),
                              Append(gpu_temps, GenericReading(key, sensor, psutil_gpu_counter)),
                              psutil_gpu_counter + 1)
             ELSE ScanSensors(Tail(pairs), gpu_temps, psutil_gpu_counter)

\* list(raw_temps.keys())
TableKeys_KnownOnly(table) ==
    SelectSeq([k \in 1..Len(table) |-> table[k][1]],
              LAMBDA key : key \in psutil_gpu_sensor_keys)
TableKeys(table) == [k \in 1..Len(table) |-> table[k][1]]

\* lines 147-151: the dict when psutil found nothing
NoDataUpdate_Overwrite(d, table) ==
    Put(Put(Put(d, "gpu_detection_method", "None"), "error", <<F_no_data>>),
        "available_sensor_keys", TableKeys(table))
NoDataUpdate_KeepError(d, table) ==
    Put(Put(d, "gpu_detection_method", "None"), "available_sensor_keys", TableKeys(table))
NoDataUpdate(d, table) ==
    LET d1 == Put(d, "gpu_detection_method", "None")
        d2 == IF "error" \notin DOMAIN d1 \/ HasFallingBack(d1["error"])
              THEN Put(d1, "error", Append(GetError(d1), F_no_data))
              ELSE d1
    IN  Put(d2, "available_sensor_keys", TableKeys(table))

\* lines 117-151: the dict after the table was read
GenericUpdate_AlwaysNone(d, table) ==
    LET scan == ScanSensors(Flatten(table), d["gpu_temps"], 1)
        d1 == Put(d, "gpu_temps", scan[1])
    IN  IF d1["gpu_detection_method"] # "pynvml"
        THEN NoDataUpdate(d1, table)
        ELSE d1
GenericUpdate(d, table) ==
    LET scan == ScanSensors(Flatten(table), d["gpu_temps"], 1)
        psutil_found_gpu_data == scan[2] > 1
        d1 == Put(d, "gpu_temps", scan[1])
    IN  IF psutil_found_gpu_data /\ d1["gpu_detection_method"] # "pynvml"
        THEN Put(d1, "gpu_detection_method", "psutil")
        ELSE IF ~psutil_found_gpu_data /\ d1["gpu_detection_method"] # "pynvml"
        THEN NoDataUpdate(d1, table)
        ELSE d1

\* line 114
CheckFallback ==
    /\ pc = "L114"
    /\ pc' = IF FallbackCondition(data) THEN "L115" ELSE "L161"
    /\ UNCHANGED <<PYNVML_AVAILABLE, data, exc, device_count, i, raw_temps, calls>>
    /\ UNCHANGED mainvars

\* lines 115-151
ReadSensors ==
    /\ pc = "L115"
    /\ \/ \E table \in SensorTables :
            /\ calls' = Append(calls, Call("sensors_temperatures", TRUE))
            /\ raw_temps' = table
            /\ data' = GenericUpdate(data, table)
            /\ pc' = "L161"
            /\ UNCHANGED exc
       \/ \E e \in SensorReadErrors :
            /\ calls' = Append(calls, Call("sensors_temperatures", FALSE))
            /\ exc' = e
            /\ pc' = OuterHandler(e)
            /\ UNCHANGED <<data, raw_temps>>
    /\ UNCHANGED <<PYNVML_AVAILABLE, device_count, i>>
    /\ UNCHANGED mainvars

\* lines 117-151 applied to the table line 115 has returned
ScanTable ==
    /\ pc = "L117"
    /\ data' = GenericUpdate(data, raw_temps)
    /\ pc' = "L161"
    /\ UNCHANGED <<PYNVML_AVAILABLE, exc, device_count, i, raw_temps, calls>>
    /\ UNCHANGED mainvars

\* lines 154-155: the dict on entry of the outer except clause
GeneralErrorData_KeepMethod(d, e) == Put(d, "error", <<F_general, e.msg>>)
GeneralErrorData(d, e) ==
    Put(Put(d, "error", <<F_general, e.msg>>), "gpu_detection_method", "error")

\* lines 153-159
GeneralErrorHandler ==
    /\ pc = "L153"
    /\ \/ \E table \in SensorTables :
            /\ calls' = Append(calls, Call("sensors_temperatures", TRUE))
            /\ data' = Put(GeneralErrorData(data, exc), "available_sensor_keys",
                           TableKeys(table))
            /\ raw_temps' = table
       \/ \E e \in SensorReadErrors :
            /\ calls' = Append(calls, Call("sensors_temperatures", FALSE))
            /\ data' = Put(GeneralErrorData(data, exc), "available_sensor_keys", <<>>)
            /\ UNCHANGED raw_temps
    /\ pc' = "L161"
    /\ UNCHANGED <<PYNVML_AVAILABLE, exc, device_count, i>>
    /\ UNCHANGED mainvars

\* line 161
Return ==
    /\ pc = "L161"
    /\ pc' = "done"
    /\ UNCHANGED <<PYNVML_AVAILABLE, data, exc, device_count, i, raw_temps, calls>>
    /\ UNCHANGED mainvars

(***************************************************************************)
(* Presentation: display_gpu_temperatures and main(), lines 164-277.       *)
(* A stream is the sequence of the lines written to it; a line is a record *)
(* with its kind and its text.                                             *)
(***************************************************************************)
S_nvidia == <<"n","v","i","d","i","a">>
S_amd    == <<"a","m","d">>
S_radeon == <<"r","a","d","e","o","n">>
S_G      == <<"G">>
S_NV     == <<"N","V">>
S_AMD    == <<"A","M","D">>
S_NA     == <<"G","P","U",":"," ","N","/","A">>
S_bar    == <<" ","|"," ">>
S_colon  == <<":"," ">>
S_degC   == <<"°","C">>

RECURSIVE Replace(_, _, _)
\* str.replace(old, new): every occurrence, left to right
Replace(s, old, new) ==
    IF s = <<>> THEN <<>>
    ELSE IF StartsWith(s, old)
    THEN new \o Replace(SubSeq(s, Len(old) + 1, Len(s)), old, new)
    ELSE <<s[1]>> \o Replace(Tail(s), old, new)

RECURSIVE Join(_, _)
\* sep.join(parts)
Join(sep, parts) ==
    IF parts = <<>> THEN <<>>
    ELSE IF Len(parts) = 1 THEN parts[1]
    ELSE parts[1] \o sep \o Join(sep, Tail(parts))

\* f"{t:.1f}°C" of a non-negative temperature held in tenths
FormatTemp(t) == IntToStr(t \div 10) \o <<".">> \o <<Digits[(t % 10) + 1]>> \o S_degC

\* lines 54-61
get_temp_color(temperature) ==
    IF temperature < 600 THEN "green"
    ELSE IF temperature < 800 THEN "yellow"
    ELSE "red"

\* lines 252-256: display_label of the reading at index idx (from 0)
DisplayLabel(label, idx) ==
    IF Contains(Lower(label), S_nvidia) THEN S_NV \o IntToStr(idx + 1)
    ELSE IF Contains(Lower(label), S_amd) \/ Contains(Lower(label), S_radeon)
    THEN S_AMD \o IntToStr(idx + 1)
    ELSE IF StartsWith(label, S_GPU_) THEN Replace(label, S_GPU_, S_G)
    ELSE S_G \o IntToStr(idx + 1)

\* lines 246-260: the one line of --short
ShortLine(gpu_data) ==
    IF gpu_data["gpu_temps"] = <<>>
    THEN [kind |-> "short_na", text |-> S_NA]
    ELSE [kind |-> "short",
          text |-> Join(S_bar,
                     [k \in 1..Len(gpu_data["gpu_temps"]) |->
                        DisplayLabel(gpu_data["gpu_temps"][k].label, k - 1)
                          \o S_colon \o FormatTemp(gpu_data["gpu_temps"][k].current)])]

\* lines 186-195: one row of the table
TableRow(gpu_info) ==
    [kind |-> "row",
     text |-> <<gpu_info.label, get_temp_color(gpu_info.current),
                FormatTemp(gpu_info.current), FormatTemp(gpu_info.high),
                FormatTemp(gpu_info.critical)>>]

\* lines 169-204: what display_gpu_temperatures writes
DisplayLines(gpu_data) ==
    <<[kind |-> "title", text |-> <<>>]>> \o
    ( IF gpu_data["gpu_temps"] # <<>>
      THEN <<[kind |-> "rule", text |-> <<>>], [kind |-> "columns", text |-> <<>>],
             [kind |-> "rule", text |-> <<>>]>>
           \o [k \in 1..Len(gpu_data["gpu_temps"]) |-> TableRow(gpu_data["gpu_temps"][k])]
           \o <<[kind |-> "rule", text |-> <<>>]>>
      ELSE IF "error" \in DOMAIN gpu_data
      THEN <<[kind |-> "error", text |-> gpu_data["error"]]>>
           \o ( IF "available_sensor_keys" \in DOMAIN gpu_data
                THEN <<[kind |-> "keys", text |-> gpu_data["available_sensor_keys"]]>>
                ELSE <<>> )
           \o <<[kind |-> "rule", text |-> <<>>]>>
      ELSE <<[kind |-> "no_data", text |-> <<>>], [kind |-> "rule", text |-> <<>>]>> )

\* lines 231-233: what the one-shot modes write to stderr for an error
OneShotErrorLines(gpu_data) ==
    <<[kind |-> "fetch_error", text |-> gpu_data["error"]]>>
    \o ( IF "available_sensor_keys" \in DOMAIN gpu_data
         THEN <<[kind |-> "keys", text |-> gpu_data["available_sensor_keys"]]>>
         ELSE <<>> )

\* line 230: the one-shot modes give up on an error without readings
OneShotFails_OnAnyError(gpu_data) == "error" \in DOMAIN gpu_data
OneShotFails_Never(gpu_data) == FALSE
OneShotFails(gpu_data) ==
    "error" \in DOMAIN gpu_data /\ gpu_data["gpu_temps"] = <<>>

\* sys.exit(code)
Exit(code) ==
    /\ exit_code' = Some(code)
    /\ mpc' = "exited"

pollvars == <<PYNVML_AVAILABLE, pc, data, exc, device_count, i, raw_temps, calls>>

\* the frame of get_gpu_data_structured and its result are gone: the
\* snapshot is dropped once displayed, and an exception unwinds the frame
DropSnapshot ==
    /\ pc' = "idle"
    /\ data' = NewData
    /\ exc' = NoExc
    /\ device_count' = 0
    /\ i' = 0
    /\ raw_temps' = <<>>
    /\ calls' = <<>>
    /\ UNCHANGED PYNVML_AVAILABLE

\* line 223: the two one-shot flags exclude each other
BothFlags_Never(a) == FALSE
BothFlags(a) == a.json /\ a.short

\* lines 223-227 and 263: the mode chosen from the parsed arguments
CheckArgs ==
    /\ mpc = "L223"
    /\ IF BothFlags(args)
       THEN /\ stderr' = Append(stderr, [kind |-> "exclusive", text |-> <<>>])
            /\ Exit(1)
       ELSE /\ mpc' = IF args.json \/ args.short THEN "L228" ELSE "L266"
            /\ UNCHANGED <<stderr, exit_code>>
    /\ UNCHANGED <<args, stdout, polls>>
    /\ UNCHANGED pollvars

\* lines 230-234
OneShotErrorCheck ==
    /\ mpc = "L230"
    /\ pc = "done"
    /\ IF OneShotFails(data)
       THEN /\ stderr' = stderr \o OneShotErrorLines(data)
            /\ Exit(1)
       ELSE /\ mpc' = "L236"
            /\ UNCHANGED <<stderr, exit_code>>
    /\ UNCHANGED <<args, stdout, polls>>
    /\ UNCHANGED pollvars

\* lines 236-244: json.dumps either answers the document or raises
JsonOutput ==
    /\ mpc = "L236"
    /\ args.json
    /\ \/ /\ stdout' = Append(stdout, [kind |-> "json", text |-> data])
          /\ Exit(0)
          /\ UNCHANGED stderr
       \/ /\ stderr' = Append(stderr, [kind |-> "json_error", text |-> <<>>])
          /\ Exit(1)
          /\ UNCHANGED stdout
    /\ UNCHANGED <<args, polls>>
    /\ UNCHANGED pollvars

\* lines 245-262
ShortOutput ==
    /\ mpc = "L236"
    /\ ~args.json
    /\ args.short
    /\ stdout' = Append(stdout, ShortLine(data))
    /\ Exit(0)
    /\ UNCHANGED <<args, stderr, polls>>
    /\ UNCHANGED pollvars

\* lines 265-266: a cycle of the live loop starts by clearing the console
ClearConsole ==
    /\ mpc = "L266"
    /\ stdout' = <<>>
    /\ mpc' = "L268"
    /\ UNCHANGED <<args, stderr, exit_code, polls>>
    /\ UNCHANGED pollvars

\* lines 270-273: where the live loop goes after an exception of the poll
\* or of the display
AfterLiveError_Exit(e) == "exited"
AfterLiveError(e) == "L273"

\* lines 269-272: the snapshot is displayed; an exception raised by the
\* poll or by the display is reported and the cycle goes on
Display ==
    /\ mpc = "L269"
    /\ pc \in {"done", "raised"}
    /\ \/ /\ pc = "done"
          /\ stdout' = stdout \o DisplayLines(data)
          /\ mpc' = "L273"
          /\ UNCHANGED exit_code
       \/ /\ pc = "done"
          /\ stdout' = stdout \o <<[kind |-> "title", text |-> <<>>],
                                   [kind |-> "live_error", text |-> <<>>]>>
          /\ mpc' = AfterLiveError(exc)
          /\ exit_code' = IF AfterLiveError(exc) = "exited" THEN Some(1) ELSE exit_code
       \/ /\ pc = "raised"
          /\ stdout' = Append(stdout, [kind |-> "live_error", text |-> <<>>])
          /\ mpc' = AfterLiveError(exc)
          /\ exit_code' = IF AfterLiveError(exc) = "exited" THEN Some(1) ELSE exit_code
    /\ UNCHANGED <<args, stderr, polls>>
    /\ DropSnapshot

\* line 273 and the loop back of line 265
Sleep ==
    /\ mpc = "L273"
    /\ mpc' = "L266"
    /\ UNCHANGED <<args, stdout, stderr, exit_code, polls>>
    /\ UNCHANGED pollvars

\* the lines of the live loop, all inside the try of line 264
LiveLoopLines == {"L266", "L268", "L269", "L273"}

\* lines 274-277: the exit status after KeyboardInterrupt
InterruptStatus == 0

\* lines 264-277: KeyboardInterrupt raised anywhere in the live loop (in
\* the poll, whose frame is then unwound, in the display or in the sleep)
\* is taken by line 274: the stop message is written and the process exits
Interrupt_AsError ==
    /\ mpc \in LiveLoopLines
    /\ stdout' = Append(stdout, [kind |-> "stopped", text |-> <<>>])
    /\ Exit(InterruptStatus + 1)
    /\ DropSnapshot
    /\ UNCHANGED <<args, stderr, polls>>
Interrupt ==
    /\ mpc \in LiveLoopLines
    /\ stdout' = Append(stdout, [kind |-> "stopped", text |-> <<>>])
    /\ Exit(InterruptStatus)
    /\ DropSnapshot
    /\ UNCHANGED <<args, stderr, polls>>

\* a step of get_gpu_data_structured after its start
PollStep ==
    \/ CheckVendor \/ NvmlInit \/ NvmlDeviceGetCount \/ ReadDevice
    \/ NvmlShutdown \/ NvmlErrorHandler \/ UnexpectedHandler
    \/ CheckFallback \/ ReadSensors \/ GeneralErrorHandler \/ Return

Next ==
    \/ CheckArgs
    \/ OneShotErrorCheck
    \/ JsonOutput
    \/ ShortOutput
    \/ ClearConsole
    \/ Display
    \/ Sleep
    \/ Interrupt
    \/ StartPoll
    \/ CheckVendor
    \/ NvmlInit
    \/ NvmlDeviceGetCount
    \/ ReadDevice
    \/ NvmlShutdown
    \/ NvmlErrorHandler
    \/ UnexpectedHandler
    \/ CheckFallback
    \/ ReadSensors
    \/ GeneralErrorHandler
    \/ Return

Spec == Init /\ [][Next]_vars

(***************************************************************************)
(* The classification of lines 117-151 on its own: a poll of the live loop *)
(* without the vendor library, at the point where line 115 has returned a  *)
(* table with one group of one entry.                                      *)
(***************************************************************************)
InitClassify ==
    /\ PYNVML_AVAILABLE = FALSE
    /\ pc = "L117"
    /\ data = NewData
    /\ exc = NoExc
    /\ device_count = 0
    /\ i = 0
    /\ raw_temps \in ClassifyTables
    /\ calls = <<Call("sensors_temperatures", TRUE)>>
    /\ args = [json |-> FALSE, short |-> FALSE]
    /\ mpc = "L269"
    /\ stdout = <<>>
    /\ stderr = <<>>
    /\ exit_code = None
    /\ polls = 1

NextClassify ==
    \/ ScanTable
    \/ Return

SpecClassify == InitClassify /\ [][NextClassify]_vars

(***************************************************************************)
(* Vocabulary of the properties.  `calls` is the history of the library    *)
(* calls of the current poll; the snapshot is `data` once pc = "done".     *)
(***************************************************************************)
VendorFns == {"nvmlInit", "nvmlDeviceGetCount", "nvmlDeviceGetHandleByIndex",
              "nvmlDeviceGetName", "decode", "nvmlDeviceGetTemperature",
              "nvmlShutdown"}

Returned == pc = "done"

Called(fn) == \E k \in 1..Len(calls) : calls[k].fn = fn
Succeeded(fn) == \E k \in 1..Len(calls) : calls[k] = Call(fn, TRUE)

\* an exception was raised inside the vendor path
VendorFailed == \E k \in 1..Len(calls) : calls[k].fn \in VendorFns /\ ~calls[k].ok

\* the vendor path ran to its end without an exception
VendorSucceeded == Succeeded("nvmlShutdown")

GenericConsulted == Called("sensors_temperatures")

\* the read of line 115 raised: an exception escaped to the outer handler
SensorReadEscaped ==
    \E k \in 1..Len(calls) :
        /\ calls[k] = Call("sensors_temperatures", FALSE)
        /\ \A j \in 1..(k - 1) : calls[j].fn # "sensors_temperatures"

\* the read of line 115 answered a table
GenericRan ==
    \E k \in 1..Len(calls) :
        /\ calls[k] = Call("sensors_temperatures", TRUE)
        /\ \A j \in 1..(k - 1) : calls[j].fn # "sensors_temperatures"

FromVendor(r) == r.detection_source[1] = "pynvml"
FromGeneric(r) == r.detection_source[1] = "psutil"

Readings == data["gpu_temps"]
Method == data["gpu_detection_method"]
HasVendorReading == \E k \in 1..Len(Readings) : FromVendor(Readings[k])
HasGenericReading == \E k \in 1..Len(Readings) : FromGeneric(Readings[k])

NoEntryQualifies(table) ==
    \A k \in 1..Len(table) : \A j \in 1..Len(table[k][2]) :
        ~IsGpuSensor(table[k][1], table[k][2][j])

(***************************************************************************)
(* Properties of the snapshot returned by a poll.                          *)
(***************************************************************************)
\* C1: in every returned snapshot, gpu_temps is empty if and only if
\* gpu_detection_method is "None" or "error".
C1_EmptyIffNoneOrError ==
    Returned => ((Readings = <<>>) <=> (Method \in {"None", "error"}))

\* C2: when the vendor path ran to its end and reported at least one device,
\* the snapshot's method is "pynvml", psutil was not consulted in that poll
\* and every reading is a pynvml reading.
C2_VendorSuccessWins ==
    (Returned /\ VendorSucceeded /\ device_count >= 1) =>
        /\ Method = "pynvml"
        /\ ~GenericConsulted
        /\ Len(Readings) = device_count
        /\ \A k \in 1..Len(Readings) : FromVendor(Readings[k])

C2_Witness ==
    /\ Returned /\ VendorSucceeded /\ device_count = MaxDevices
    /\ Method = "pynvml" /\ Len(Readings) = MaxDevices

\* C3: no returned snapshot holds both a pynvml reading and a psutil reading.
C3_NeverMerged == Returned => ~(HasVendorReading /\ HasGenericReading)

\* C4: in every poll that attempted nvmlInit, nvmlShutdown was called before
\* the poll returned.
C4_ShutdownBeforeReturn == (Returned /\ Called("nvmlInit")) => Called("nvmlShutdown")

\* C5: a poll never raises: no exception leaves get_gpu_data_structured, a
\* started poll can always take its next step until it returns, and in the
\* returned snapshot every failure is recorded: any failed call leaves an
\* "error" text, a failed sensor-table read gives the method "error", and a
\* failed second read inside the handler gives an empty key list.
C5_NeverThrows ==
    /\ pc # "raised"
    /\ pc \notin {"idle", "done"} => ENABLED PollStep
    /\ Returned =>
         /\ (VendorFailed \/ SensorReadEscaped) => "error" \in DOMAIN data
         /\ SensorReadEscaped =>
              /\ Method = "error"
              /\ "available_sensor_keys" \in DOMAIN data
         /\ (SensorReadEscaped /\ ~Succeeded("sensors_temperatures")) =>
              data["available_sensor_keys"] = <<>>

C5_Witness ==
    /\ Returned /\ VendorFailed /\ SensorReadEscaped
    /\ ~Succeeded("sensors_temperatures")
    /\ Method = "error"

\* C6: whenever the vendor path raised, the returned snapshot comes from a
\* poll that read the sensor table afterwards; and with the capability
\* present the sensor table is never read before nvmlInit was called.
C6_FallbackAfterVendorFailure ==
    /\ (Returned /\ VendorFailed) => GenericConsulted
    /\ (PYNVML_AVAILABLE /\ GenericConsulted) =>
         /\ calls[1].fn = "nvmlInit"
         /\ \A k \in 1..Len(calls) :
              calls[k].fn = "sensors_temperatures" =>
                \A j \in (k + 1)..Len(calls) : calls[j].fn = "sensors_temperatures"

C6_Witness ==
    /\ Returned /\ VendorFailed /\ GenericConsulted
    /\ HasVendorReading /\ Method = "psutil"

\* C7: when the sensor-table read of the fallback raised, the returned
\* snapshot has the method "error", the error text built from the
\* exception's message, and available_sensor_keys: the keys of the table
\* when the second read succeeded, the empty list when it failed too.
C7_EscapedException ==
    (Returned /\ SensorReadEscaped) =>
        /\ Method = "error"
        /\ data["error"] = <<F_general, exc.msg>>
        /\ "available_sensor_keys" \in DOMAIN data
        /\ IF Succeeded("sensors_temperatures")
           THEN /\ Len(data["available_sensor_keys"]) = Len(raw_temps)
                /\ \A k \in 1..Len(raw_temps) :
                     data["available_sensor_keys"][k] = raw_temps[k][1]
           ELSE data["available_sensor_keys"] = <<>>

C7_Witness ==
    /\ Returned /\ SensorReadEscaped /\ Succeeded("sensors_temperatures")
    /\ Len(raw_temps) = MaxGroups
    /\ Len(data["available_sensor_keys"]) = MaxGroups

\* C8: without the capability no vendor call is ever made, and every
\* returned snapshot comes from a poll whose first call read the sensor table.
C8_NoVendorWithoutCapability ==
    ~PYNVML_AVAILABLE =>
        /\ \A k \in 1..Len(calls) : calls[k].fn \notin VendorFns
        /\ Returned => (Len(calls) >= 1 /\ calls[1].fn = "sensors_temperatures")

C8_Witness ==
    /\ Returned /\ ~PYNVML_AVAILABLE
    /\ GenericRan /\ Method = "psutil"

\* C9: when the fallback read the table, no entry qualifies and the snapshot
\* holds no vendor reading, the snapshot has no readings, the method "None",
\* an error text, and available_sensor_keys holding exactly the group keys
\* of the table.
C9_NothingQualifies ==
    (Returned /\ GenericRan /\ NoEntryQualifies(raw_temps) /\ ~HasVendorReading) =>
        /\ Readings = <<>>
        /\ Method = "None"
        /\ "error" \in DOMAIN data
        /\ "available_sensor_keys" \in DOMAIN data
        /\ { data["available_sensor_keys"][k] : k \in 1..Len(data["available_sensor_keys"]) }
             = { raw_temps[k][1] : k \in 1..Len(raw_temps) }

C9_Witness ==
    /\ Returned /\ GenericRan /\ ~PYNVML_AVAILABLE
    /\ raw_temps = <<<<K_coretemp, <<E_package>>>>>>
    /\ Readings = <<>>
    /\ data["available_sensor_keys"] = <<K_coretemp>>

\* C10: in every returned snapshot the method is "None" only when gpu_temps
\* is empty and no call of that poll raised.
C10_NoneOnlyWithoutError ==
    (Returned /\ Method = "None") =>
        /\ Readings = <<>>
        /\ ~VendorFailed
        /\ ~SensorReadEscaped


\* C10 (amended): in every returned snapshot the method is "None" only when
\* the fallback read the sensor table, no entry of it qualified and no
\* exception escaped to the outer handler; the vendor path may have raised
\* in that poll, the snapshot holds no psutil reading, and gpu_temps is
\* empty unless the vendor path raised after it had appended readings.
C10_NoneOnlyWhenNothingFound ==
    (Returned /\ Method = "None") =>
        /\ GenericRan
        /\ ~SensorReadEscaped
        /\ NoEntryQualifies(raw_temps)
        /\ ~HasGenericReading
        /\ Readings # <<>> => VendorFailed

C10_Witness ==
    /\ Returned /\ Method = "None"
    /\ VendorFailed /\ GenericRan
    /\ Readings = <<>>
    /\ raw_temps # <<>>


\* C11: in every returned snapshot an "error" text is present exactly when a
\* source failed in that poll (the vendor path raised, or the sensor-table
\* read raised) or the snapshot has no readings; a poll with at least one
\* reading and no failure returns a snapshot without "error".
C11_DiagnosticExactly ==
    Returned =>
        (("error" \in DOMAIN data) <=>
            (VendorFailed \/ SensorReadEscaped \/ Readings = <<>>))

C11_Witness ==
    /\ Returned /\ VendorFailed /\ Readings # <<>>
    /\ Method = "psutil" /\ "error" \in DOMAIN data

C11_WitnessNoDiagnostic ==
    /\ Returned /\ ~VendorFailed /\ GenericRan
    /\ Readings # <<>> /\ "error" \notin DOMAIN data

IsPrefix(p, t) == Len(p) <= Len(t) /\ \A k \in 1..Len(p) : t[k] = p[k]

\* C18: when the fallback scan finds nothing, the error text the vendor
\* failure had set stays the beginning of the final text; the text is the
\* bare no-data message only when no text existed before; and
\* available_sensor_keys is attached in both cases.
C18_PriorDiagnosticKept ==
    [][(pc = "L115" /\ pc' = "L161" /\ data'["gpu_detection_method"] = "None") =>
          /\ "available_sensor_keys" \in DOMAIN data'
          /\ "error" \in DOMAIN data'
          /\ IF "error" \in DOMAIN data
             THEN /\ IsPrefix(data["error"], data'["error"])
                  /\ data'["error"] # <<F_no_data>>
             ELSE data'["error"] = <<F_no_data>>]_vars

C18_Witness ==
    /\ Returned /\ VendorFailed /\ GenericRan /\ Method = "None"
    /\ Len(data["error"]) >= 4
    /\ data["error"][1] = F_pynvml_error
    /\ "available_sensor_keys" \in DOMAIN data

\* C19: the two fallback method values are transitional: every returned
\* snapshot has the method "None", "pynvml", "psutil" or "error".
C19_FinalMethods ==
    Returned => Method \in {"None", "pynvml", "psutil", "error"}

C19_Witness ==
    /\ Returned /\ VendorFailed /\ HasVendorReading
    /\ Method \in {"None", "psutil", "error"}


(***************************************************************************)
(* Properties of main().                                                   *)
(***************************************************************************)
Exited == mpc = "exited"
ShortMode == args.short /\ ~args.json
JsonMode == args.json /\ ~args.short
LiveMode == ~args.json /\ ~args.short

\* the snapshot carries an error text and no reading
ErrorWithoutReadings == "error" \in DOMAIN data /\ Readings = <<>>

HasLine(stream, kind) == \E k \in 1..Len(stream) : stream[k].kind = kind

\* C12: with --short alone the process makes exactly one poll, writes
\* exactly one line to stdout and exits with status 0, whatever the poll
\* returned.
C12_ShortAlwaysOneLine ==
    (Exited /\ ShortMode) =>
        /\ polls = 1
        /\ Len(stdout) = 1
        /\ exit_code = Some(0)

\* C12 (amended): with --short alone the process makes exactly one poll;
\* when the snapshot carries an error text and no reading it writes nothing
\* to stdout, reports on stderr and exits with status 1; in every other case
\* it writes exactly one line to stdout, the per-reading entries, and exits
\* with status 0.
C12_ShortOneLineOrError ==
    (Exited /\ ShortMode) =>
        /\ polls = 1
        /\ Returned
        /\ IF ErrorWithoutReadings
           THEN /\ exit_code = Some(1)
                /\ stdout = <<>>
                /\ HasLine(stderr, "fetch_error")
           ELSE /\ exit_code = Some(0)
                /\ Len(stdout) = 1
                /\ stdout[1].kind = "short"
                /\ stderr = <<>>

C12_Witness ==
    /\ Exited /\ ShortMode /\ Returned
    /\ ErrorWithoutReadings
    /\ exit_code = Some(1) /\ stdout = <<>>

\* C13: with --json alone the process makes exactly one poll; it exits with
\* status 1 only when the snapshot carries an error text and no reading, or
\* when the serialization failed; in every other case, a snapshot with an
\* error text and readings included, it writes the snapshot as one JSON
\* document to stdout and exits with status 0.
C13_JsonExitStatus ==
    (Exited /\ JsonMode) =>
        /\ polls = 1
        /\ Returned
        /\ exit_code = Some(1) => (ErrorWithoutReadings \/ HasLine(stderr, "json_error"))
        /\ (~ErrorWithoutReadings /\ ~HasLine(stderr, "json_error")) =>
              /\ exit_code = Some(0)
              /\ stdout = <<[kind |-> "json", text |-> data]>>
        /\ exit_code = Some(1) => stdout = <<>>

C13_Witness ==
    /\ Exited /\ JsonMode /\ Returned
    /\ "error" \in DOMAIN data /\ Readings # <<>>
    /\ exit_code = Some(0)
    /\ stdout = <<[kind |-> "json", text |-> data]>>

\* C14: with --json and --short together no poll is started, no library is
\* called, nothing is written to stdout, and the process exits with status 1.
C14_BothFlags ==
    (args.json /\ args.short) =>
        /\ polls = 0
        /\ calls = <<>>
        /\ pc = "idle"
        /\ stdout = <<>>
        /\ IF Exited
           THEN exit_code = Some(1) /\ HasLine(stderr, "exclusive")
           ELSE exit_code = None /\ ENABLED CheckArgs

C14_Witness ==
    /\ args.json /\ args.short
    /\ Exited /\ exit_code = Some(1)
    /\ polls = 0 /\ stdout = <<>>

\* C15: in live mode the process exits only by the interrupt; after a poll
\* has returned (or raised), the display step, whether it shows the
\* snapshot or reports an exception, leads to the sleep, the sleep to the
\* clearing of the console, and that to the next poll.
C15_LiveNeverExitsOnError ==
    [][LiveMode =>
         /\ exit_code' # None =>
              (exit_code' = Some(0) /\ stdout'[Len(stdout')].kind = "stopped")
         /\ (mpc = "L269" /\ pc \in {"done", "raised"} /\ exit_code' = None) =>
              mpc' = "L273"
         /\ (mpc = "L273" /\ exit_code' = None) => mpc' = "L266"
         /\ (mpc = "L266" /\ exit_code' = None) => mpc' = "L268"
         /\ (mpc = "L268" /\ exit_code' = None) => (mpc' = "L269" /\ pc' = "L76")
      ]_vars

C15_Witness ==
    /\ LiveMode /\ mpc = "L273" /\ polls = MaxPolls
    /\ exit_code = None
    /\ HasLine(stdout, "error")

\* C16: in live mode the interrupt can be taken at every point of the cycle
\* (poll, display, sleep); an exited live process has status 0 and the stop
\* message as its last output; and a live process that was not interrupted
\* can always take the next step of the cycle.
C16_InterruptStopsLive ==
    LiveMode =>
        /\ mpc \in LiveLoopLines => ENABLED Interrupt
        /\ Exited =>
             /\ exit_code = Some(0)
             /\ stdout # <<>>
             /\ stdout[Len(stdout)].kind = "stopped"
        /\ ~Exited =>
             /\ exit_code = None
             /\ ENABLED (CheckArgs \/ ClearConsole \/ StartPoll \/ PollStep \/ Display \/ Sleep)

C16_Witness ==
    /\ LiveMode /\ Exited /\ exit_code = Some(0)
    /\ Len(stdout) >= 2
    /\ stdout[Len(stdout)].kind = "stopped"
    /\ polls = MaxPolls

\* C17: the generic adapter turns an entry into a reading exactly when the
\* entry has a current value and its group key is one of amdgpu, nouveau,
\* gpu, radeon, or the lower-cased key contains "gpu" or "video", or the
\* lower-cased key contains "temp" and the lower-cased label contains "gpu";
\* an entry without a current value never becomes a reading.
EntryKey == raw_temps[1][1]
Entry == raw_temps[1][2][1]
KeyNamesGpu ==
    \/ EntryKey \in {K_amdgpu, K_nouveau, S_gpu, K_radeon}
    \/ \E k \in 1..(Len(EntryKey) - 2) : Lower(SubSeq(EntryKey, k, k + 2)) = S_gpu
    \/ \E k \in 1..(Len(EntryKey) - 4) : Lower(SubSeq(EntryKey, k, k + 4)) = S_video
LabelNamesGpu ==
    /\ \E k \in 1..(Len(EntryKey) - 3) : Lower(SubSeq(EntryKey, k, k + 3)) = S_temp
    /\ \E k \in 1..(Len(Entry.label) - 2) :
          Lower(SubSeq(Entry.label, k, k + 2)) = S_gpu
Classified ==
    /\ Len(Readings) = 1
    /\ Readings[1].detection_source = <<"psutil", EntryKey>>
    /\ Readings[1].current = Entry.current[1]
    /\ Method = "psutil"
NotClassified == Readings = <<>> /\ Method = "None"
C17_Classification ==
    pc \in {"L161", "done"} =>
        /\ Classified \/ NotClassified
        /\ Classified <=> (Entry.current # None /\ (KeyNamesGpu \/ LabelNamesGpu))
        /\ Entry.current = None => NotClassified

C17_Witness ==
    /\ pc = "done"
    /\ EntryKey = K_temp1 /\ Entry.label = L_GPU_core /\ Entry.current # None
    /\ Classified

\* C20: every returned snapshot without readings carries an error text, and
\* neither the "GPU: N/A" line of --short nor the "No GPU temperature data
\* available." line of the live display is ever written.
C20_EmptyHasDiagnostic ==
    /\ (Returned /\ Readings = <<>>) => "error" \in DOMAIN data
    /\ ~HasLine(stdout, "short_na")
    /\ ~HasLine(stdout, "no_data")

C20_Witness ==
    /\ LiveMode /\ mpc = "L273"
    /\ HasLine(stdout, "error") /\ HasLine(stdout, "keys")

====
